---- MODULE Spec2Model ----
(***************************************************************************)
(* Player progression ledger of src/main.py: daily login points,           *)
(* PlayerBoost accumulation, level prizes and the CSV export, as a state   *)
(* machine over the ORM session (pending objects, flushed rows) and the    *)
(* committed tables.                                                       *)
(***************************************************************************)
EXTENDS Integers, Sequences, FiniteSets, Bags, TLC

\* ---------------------------------------------------------------- bounds
MaxTime == 2
MaxAmount == 2
MaxLogins == 3
MaxBoostCalls == 4
MaxGives == 2
MaxExports == 1
MaxLevelRows == 2
MaxLevelPrizes == 2
MaxDeletes == 1
MaxConcLogins == 4

\* Points credited by the first login of a day (main.py line 53).
DailyBonus == 10
\* Clock ticks per UTC calendar day: datetime.date() drops the time of day.
TicksPerDay == 2

\* Opaque identifiers (uuid4 values in the code).
Players == {"p1", "p2"}
Boosts == {"b1", "b2"}
Levels == {"l1", "l2"}
Prizes == {"z1", "z2"}
Callers == {"c1", "c2"}

\* A nullable column: <<>> is None, <<v>> holds v.
None == <<>>
Some(v) == <<v>>
Val(n) == n[1]

\* The amounts add_boost is called with.
Amounts == 0..MaxAmount

\* amount: int (main.py line 57) admits every integer, negative ones too.
SignedAmounts == (0 - MaxAmount)..MaxAmount

VARIABLES
    now,            \* datetime.utcnow(), in ticks
    existing,       \* the ids of the rows of players, boosts, levels and prizes
    unsaved,        \* the Player objects constructed and not yet flushed
    calls,          \* number of operations invoked so far
    last,           \* the operation invoked last and whether it returned normally
    first_login,    \* Player.first_login, as the session's object has it
    last_login,     \* Player.last_login, as the session's object has it
    points,         \* Player.points, as the session's object has it
    loginLog,       \* history: per player, the time and credit of each login call
    pbNew,          \* session: pending PlayerBoost objects (session.add, not flushed)
    pbRows,         \* session: PlayerBoost rows of the open transaction, as the session's objects have them
    pbDirty,        \* session: keys of the PlayerBoost objects loaded, changed and not yet flushed
    plLoaded,       \* session: keys of the PlayerLevel objects loaded since the last commit
    expired,        \* session: the Player objects whose attributes the next read reloads
    inactive,       \* session: a flush has failed and session.rollback() was not called yet
    playersDurable, \* players as committed
    pbDurable,      \* player_boosts as committed
    boostLog,       \* history: per (player, boost), the add_boost calls made and the sum of their amounts
    plRows,         \* player_levels
    lpSeq,          \* level_prizes in insertion order
    ppNew,          \* session: pending PlayerPrize objects
    ppRows,         \* session: PlayerPrize rows of the open transaction
    ppDurable,      \* player_prizes as committed
    csv,            \* the data rows of the exported file, as a bag
    cpc,            \* concurrent caller: position in its call
    cargs,          \* concurrent caller: arguments of its call
    cseen,          \* concurrent caller: what its session read
    cnew,           \* concurrent caller: pending objects of its session
    cflushed,       \* concurrent caller: rows its transaction has inserted and not committed
    ctodo,          \* concurrent caller: prizes still to visit in the grant loop
    cfailed,        \* history: callers whose call raised
    cdone,          \* history: the give_prizes_for_level calls that ended
    cexpect,        \* history: per (player, boost), the sum of the amounts of ended calls
    clog            \* history: per player, the logins committed by the callers

storeVars == <<existing, unsaved>>
sessionVars == <<pbDirty, plLoaded, expired, inactive, playersDurable>>
playerVars == <<first_login, last_login, points>>
loginVars == <<first_login, last_login, points, loginLog>>
boostVars == <<pbNew, pbRows, pbDurable, boostLog>>
catalogVars == <<plRows, lpSeq>>
prizeVars == <<ppNew, ppRows, ppDurable>>
concVars == <<cpc, cargs, cseen, cnew, cflushed, ctodo, cfailed, cdone, cexpect, clog>>
\* What one session and its transaction hold.
txVars == <<pbNew, pbRows, pbDurable, ppNew, ppRows, ppDurable, sessionVars, playerVars>>
vars == <<now, storeVars, sessionVars, calls, last, loginVars, boostVars, catalogVars, prizeVars, csv, concVars>>

Range(s) == {s[i] : i \in 1..Len(s)}

\* The arguments of a caller that has made no call.
NoArgs == [player_id |-> "", id |-> "", amount |-> 0]
\* The record of a call; `again` tells that it repeats the call before it.
Called(op, p, arg, ok) ==
    [op |-> op, player_id |-> p, arg |-> arg, ok |-> ok,
     again |-> last.op = op /\ last.player_id = p /\ last.arg = arg]

Init ==
    /\ now = 0
    /\ existing = [players |-> Players, boosts |-> Boosts, levels |-> Levels, prizes |-> Prizes]
    /\ unsaved = {}
    /\ calls = 0
    /\ last = [op |-> "init", player_id |-> "", arg |-> "", ok |-> TRUE, again |-> FALSE]
    /\ first_login = [p \in Players |-> None]
    /\ last_login = [p \in Players |-> None]
    /\ points = [p \in Players |-> 0]
    /\ loginLog = [p \in Players |-> <<>>]
    /\ pbNew = <<>>
    /\ pbRows = {}
    /\ pbDirty = {}
    /\ plLoaded = {}
    /\ expired = Players
    /\ inactive = FALSE
    /\ playersDurable = [p \in Players |-> [first_login |-> None, last_login |-> None, points |-> 0]]
    /\ pbDurable = {}
    /\ boostLog = [k \in Players \X Boosts |-> [n |-> 0, sum |-> 0]]
    /\ plRows = {}
    /\ lpSeq = <<>>
    /\ ppNew = <<>>
    /\ ppRows = {}
    /\ ppDurable = {}
    /\ csv = EmptyBag
    /\ cpc = [c \in Callers |-> "idle"]
    /\ cargs = [c \in Callers |-> NoArgs]
    /\ cseen = [c \in Callers |-> None]
    /\ cnew = [c \in Callers |-> <<>>]
    /\ cflushed = [c \in Callers |-> {}]
    /\ ctodo = [c \in Callers |-> <<>>]
    /\ cfailed = {}
    /\ cdone = {}
    /\ cexpect = [k \in Players \X Boosts |-> None]
    /\ clog = [p \in Players |-> <<>>]

\* The wall clock advances between operations.
Tick ==
    /\ now < MaxTime
    /\ now' = now + 1
    /\ UNCHANGED <<storeVars, sessionVars, calls, last, loginVars, boostVars, catalogVars, prizeVars, csv, concVars>>

\* ----------------------------------------------------------------- login
\* A comparison of the timestamps themselves.
DateIsTime(t) == t

\* datetime.date(): the UTC calendar day of a timestamp.
Date(t) == t \div TicksPerDay

\* A login that credits whatever the day of the last one.
BonusDueAlways(last_l, t) == TRUE

\* main.py line 52: not self.last_login or self.last_login.date() < now.date()
BonusDue(last_l, t) == last_l = None \/ Date(Val(last_l)) < Date(t)

\* An assignment on every login.
FirstLoginReset(first, t) == Some(t)

\* main.py lines 49-50: first_login is assigned only while it is unset.
FirstLogin(first, t) == IF first = None THEN Some(t) ELSE first

\* ------------------------------------------------------------ the session
\* The composite primary key of an association row.
PK(r) ==
    IF "boost_id" \in DOMAIN r THEN <<r.player_id, r.boost_id>>
    ELSE <<r.player_id, r.prize_id>>

\* A table without the CHECK constraint.
Unchecked(r) == TRUE

\* main.py line 124: CheckConstraint("amount >= 0") on player_boosts.
CheckOk(r) == "amount" \in DOMAIN r => r.amount >= 0

\* sqlite:///:memory: as the engine is created (test_methods.py line 15,
\* call_example.py line 11): SQLite checks a foreign key only on a connection
\* that ran PRAGMA foreign_keys = ON, and none does.
ForeignKeysEnforced == FALSE

\* The ForeignKey columns of an association row name rows that are there.
ForeignKeysOk(r) ==
    ForeignKeysEnforced =>
        /\ r.player_id \in existing.players
        /\ "boost_id" \in DOMAIN r => r.boost_id \in existing.boosts
        /\ "prize_id" \in DOMAIN r => r.prize_id \in existing.prizes

\* Session.flush: UPDATE the objects changed in memory, then INSERT the
\* pending objects in the order they were added. A row that fails the CHECK
\* constraint, or an INSERT whose primary key is already in the table, raises
\* IntegrityError.
RECURSIVE Flush(_, _)
Flush(rows, new) ==
    IF \E r \in rows : ~CheckOk(r) THEN [rows |-> rows, ok |-> FALSE]
    ELSE IF new = <<>> THEN [rows |-> rows, ok |-> TRUE]
    ELSE IF \E r \in rows : PK(r) = PK(Head(new)) THEN [rows |-> rows, ok |-> FALSE]
    ELSE IF ~CheckOk(Head(new)) \/ ~ForeignKeysOk(Head(new))
         THEN [rows |-> rows, ok |-> FALSE]
    ELSE Flush(rows \cup {Head(new)}, Tail(new))

\* Autoflush before a query: every pending object of the session is written.
Autoflush ==
    LET fb == Flush(pbRows, pbNew)
        fp == Flush(ppRows, ppNew)
    IN [pb |-> fb.rows, pp |-> fp.rows, ok |-> fb.ok /\ fp.ok]

\* The session as it is when no query ran: nothing flushed.
NoFlush == [pb |-> pbRows, pp |-> ppRows, ok |-> TRUE]

\* The session after the flush fl went through: nothing is pending and no
\* loaded object differs from its row, so the session keeps no reference to
\* an association object of its own.
AfterFlush(fl) ==
    /\ pbRows' = fl.pb
    /\ ppRows' = fl.pp
    /\ pbNew' = <<>>
    /\ ppNew' = <<>>
    /\ pbDirty' = {}

\* An error raised by a flush: the transaction is rolled back at once, the
\* pending objects are expunged and every object of the session is expired,
\* so the next read of a Player answers the committed record. The Session
\* then refuses its connection (PendingRollbackError) until
\* session.rollback() is called, which no caller of the repository does.
Rollback ==
    /\ pbRows' = pbDurable
    /\ ppRows' = ppDurable
    /\ pbNew' = <<>>
    /\ ppNew' = <<>>
    /\ pbDirty' = {}
    /\ plLoaded' = {}
    /\ expired' = existing.players
    /\ inactive' = TRUE
    /\ first_login' = [p \in Players |->
           IF p \in existing.players THEN playersDurable[p].first_login ELSE first_login[p]]
    /\ last_login' = [p \in Players |->
           IF p \in existing.players THEN playersDurable[p].last_login ELSE last_login[p]]
    /\ points' = [p \in Players |->
           IF p \in existing.players THEN playersDurable[p].points ELSE points[p]]
    /\ UNCHANGED <<pbDurable, ppDurable, playersDurable>>

\* A statement of a Session whose flush has failed raises
\* PendingRollbackError before it reaches the store.
SessionUntouched == UNCHANGED txVars

\* The Player records of `players` as the session's objects hold them.
PlayersAsHeld(players) ==
    [p \in Players |->
        IF p \in players
        THEN [first_login |-> first_login[p], last_login |-> last_login[p],
              points |-> points[p]]
        ELSE playersDurable[p]]

\* A commit that goes through: the flush, the rows of the transaction made
\* durable, and every object of the session expired (expire_on_commit, the
\* default of sessionmaker). `players` are the rows of players afterwards.
Committed(players) ==
    /\ AfterFlush(Autoflush)
    /\ pbDurable' = Autoflush.pb
    /\ ppDurable' = Autoflush.pp
    /\ plLoaded' = {}
    /\ expired' = players
    /\ inactive' = FALSE
    /\ playersDurable' = PlayersAsHeld(players)

\* session.commit() of the caller.
Commit ==
    /\ IF inactive
       THEN /\ SessionUntouched
            /\ last' = Called("commit", "", "", FALSE)
       ELSE IF Autoflush.ok
       THEN /\ Committed(existing.players)
            /\ UNCHANGED playerVars
            /\ last' = last
       ELSE /\ Rollback
            /\ last' = Called("commit", "", "", FALSE)
    /\ UNCHANGED <<now, storeVars, calls, loginLog, boostLog, catalogVars, csv, concVars>>

\* A session that holds nothing uncommitted and can reach the store.
SessionClean ==
    /\ pbNew = <<>> /\ ppNew = <<>>
    /\ pbRows = pbDurable /\ ppRows = ppDurable
    /\ pbDirty = {}
    /\ ~inactive

\* ------------------------------------------------------------ Player.login
\* Player.login. Line 49 reads self.first_login: on a Player expired by a
\* commit the read reloads the row, after an autoflush of the session's
\* pending objects, and raises what the flush raises before anything is
\* assigned. Column(default=0) fills points when the row is inserted: on a
\* Player constructed and not yet flushed points is None, and line 53 raises
\* TypeError after line 50 has run. points[p] stands for the attribute only
\* while p is not in unsaved.
Login(p) ==
    /\ p \in existing.players \cup unsaved
    /\ calls < MaxLogins
    /\ calls' = calls + 1
    /\ IF p \in expired /\ inactive
       THEN /\ SessionUntouched
            /\ last' = Called("login", p, "", FALSE)
            /\ UNCHANGED loginLog
       ELSE IF p \in expired /\ ~Autoflush.ok
       THEN /\ Rollback
            /\ last' = Called("login", p, "", FALSE)
            /\ UNCHANGED loginLog
       ELSE /\ IF p \in expired
               THEN /\ AfterFlush(Autoflush)
                    /\ expired' = expired \ {p}
               ELSE UNCHANGED <<pbNew, pbRows, ppNew, ppRows, pbDirty, expired>>
            /\ UNCHANGED <<plLoaded, inactive, playersDurable, pbDurable, ppDurable>>
            /\ first_login' = [first_login EXCEPT ![p] = FirstLogin(@, now)]
            /\ IF BonusDue(last_login[p], now) /\ p \in unsaved
               THEN /\ last' = Called("login", p, "", FALSE)
                    /\ UNCHANGED <<points, last_login, loginLog>>
               ELSE LET credit == IF BonusDue(last_login[p], now) THEN DailyBonus ELSE 0
                    IN /\ points' = [points EXCEPT ![p] = @ + credit]
                       /\ last_login' = [last_login EXCEPT ![p] = Some(now)]
                       /\ loginLog' = [loginLog EXCEPT
                              ![p] = Append(@, [at |-> now, credit |-> credit])]
                       /\ last' = Called("login", p, "", TRUE)
    /\ UNCHANGED <<now, storeVars, boostLog, catalogVars, csv, concVars>>

\* Player(): an object with no attribute set, under an id no row uses, and
\* in no session.
NewPlayer(p) ==
    /\ p \notin existing.players \cup unsaved
    /\ unsaved' = unsaved \cup {p}
    /\ first_login' = [first_login EXCEPT ![p] = None]
    /\ last_login' = [last_login EXCEPT ![p] = None]
    /\ points' = [points EXCEPT ![p] = 0]
    /\ loginLog' = [loginLog EXCEPT ![p] = <<>>]
    /\ last' = Called("new_player", "", "", TRUE)
    /\ UNCHANGED <<now, existing, sessionVars, calls, boostVars, catalogVars, prizeVars, csv,
                   concVars>>

\* session.add(player); session.commit(), in a session that holds nothing
\* else uncommitted: the INSERT fills points with the column default, and the
\* commit expires the session's objects.
Persist(p) ==
    /\ p \in unsaved
    /\ SessionClean
    /\ unsaved' = unsaved \ {p}
    /\ existing' = [existing EXCEPT !.players = @ \cup {p}]
    /\ points' = [points EXCEPT ![p] = 0]
    /\ plLoaded' = {}
    /\ expired' = existing.players \cup {p}
    /\ playersDurable' = [PlayersAsHeld(existing.players) EXCEPT
           ![p] = [first_login |-> first_login[p], last_login |-> last_login[p],
                   points |-> 0]]
    /\ last' = Called("persist", "", "", TRUE)
    /\ UNCHANGED <<now, calls, first_login, last_login, loginLog, boostVars, catalogVars,
                   prizeVars, pbDirty, inactive, csv, concVars>>

\* -------------------------------------------------------------- add_boost
PBFind(rows, p, b) == {r \in rows : r.player_id = p /\ r.boost_id = b}

\* An assignment in place of the increment.
Overwrite(old, amount) == amount

\* main.py line 63: pb.amount += amount
Accumulate(old, amount) == old + amount

\* Player.add_boost. Line 61 reads self.id, which reloads an expired Player,
\* and session.get answers from the identity map only for an object the
\* session still references and has not expired: a PlayerBoost it loaded and
\* changed and has not flushed since. Every other call autoflushes the pending
\* objects and SELECTs the row.
AddBoost(p, b, amount) ==
    /\ p \in existing.players
    /\ calls < MaxBoostCalls
    /\ calls' = calls + 1
    /\ boostLog' = [boostLog EXCEPT ![<<p, b>>] = [n |-> @.n + 1, sum |-> @.sum + amount]]
    /\ LET hit == p \notin expired /\ <<p, b>> \in pbDirty
           fl == IF hit THEN NoFlush ELSE Autoflush
           pb == PBFind(fl.pb, p, b)
       IN IF inactive
          THEN /\ SessionUntouched
               /\ last' = Called("add_boost", p, b, FALSE)
          ELSE IF ~fl.ok
          THEN /\ Rollback
               /\ last' = Called("add_boost", p, b, FALSE)
          ELSE /\ last' = Called("add_boost", p, b, TRUE)
               /\ expired' = expired \ {p}
               /\ ppRows' = fl.pp
               /\ ppNew' = IF hit THEN ppNew ELSE <<>>
               /\ IF pb # {}
                  THEN /\ pbRows' = (fl.pb \ pb) \cup
                              {[r EXCEPT !.amount = Accumulate(@, amount)] : r \in pb}
                       /\ pbNew' = IF hit THEN pbNew ELSE <<>>
                       /\ pbDirty' = (IF hit THEN pbDirty ELSE {}) \cup {<<p, b>>}
                  ELSE /\ pbRows' = fl.pb
                       /\ pbNew' = <<[player_id |-> p, boost_id |-> b,
                                     amount |-> amount, created_at |-> now]>>
                       /\ pbDirty' = {}
               /\ UNCHANGED <<plLoaded, inactive, playersDurable, pbDurable, ppDurable,
                              playerVars>>
    /\ UNCHANGED <<now, storeVars, loginLog, catalogVars, csv, concVars>>

\* LevelPrize(level_id, prize_id) added and committed by the caller
\* (test_methods.py lines 34-36); the composite primary key admits each pair
\* once. The commit is the session's: it flushes what the session holds
\* pending, and a flush that fails leaves no new row.
AddLevelPrize(l, z) ==
    /\ l \in existing.levels /\ z \in existing.prizes
    /\ Len(lpSeq) < MaxLevelPrizes
    /\ \A i \in 1..Len(lpSeq) : <<lpSeq[i].level_id, lpSeq[i].prize_id>> # <<l, z>>
    /\ IF inactive
       THEN /\ SessionUntouched
            /\ UNCHANGED lpSeq
            /\ last' = Called("add_level_prize", "", "", FALSE)
       ELSE IF Autoflush.ok
       THEN /\ Committed(existing.players)
            /\ UNCHANGED playerVars
            /\ lpSeq' = Append(lpSeq, [level_id |-> l, prize_id |-> z])
            /\ last' = Called("add_level_prize", "", "", TRUE)
       ELSE /\ Rollback
            /\ UNCHANGED lpSeq
            /\ last' = Called("add_level_prize", "", "", FALSE)
    /\ UNCHANGED <<now, storeVars, calls, loginLog, boostLog, plRows, csv, concVars>>

PLFind(rows, p, l) == {r \in rows : r.player_id = p /\ r.level_id = l}

\* The caller records the PlayerLevel row of (p, l) and commits
\* (test_methods.py lines 71-73): a new row, completed or not, or the
\* completion of a row recorded before. The commit is the session's: it
\* flushes what the session holds pending, and a flush that fails leaves the
\* row unrecorded.
RecordLevel(p, l, done) ==
    /\ p \in existing.players /\ l \in existing.levels
    /\ PLFind(plRows, p, l) = {} => Cardinality(plRows) < MaxLevelRows
    /\ \A r \in PLFind(plRows, p, l) : r.completed = None /\ done
    /\ IF inactive
       THEN /\ SessionUntouched
            /\ UNCHANGED plRows
            /\ last' = Called("record_level", "", "", FALSE)
       ELSE IF Autoflush.ok
       THEN /\ Committed(existing.players)
            /\ UNCHANGED playerVars
            /\ plRows' = (plRows \ PLFind(plRows, p, l)) \cup
                   {[player_id |-> p, level_id |-> l,
                     completed |-> IF done THEN Some(now) ELSE None]}
            /\ last' = Called("record_level", "", "", TRUE)
       ELSE /\ Rollback
            /\ UNCHANGED plRows
            /\ last' = Called("record_level", "", "", FALSE)
    /\ UNCHANGED <<now, storeVars, calls, loginLog, boostLog, lpSeq, csv, concVars>>

\* ------------------------------------------------- give_prizes_for_level
\* A query without the join: every prize of the catalog.
AllPrizes(l) == Prizes

\* main.py lines 80-82: the prizes joined to the level through level_prizes.
LevelPrizes(l) == {lpSeq[i].prize_id : i \in {j \in 1..Len(lpSeq) : lpSeq[j].level_id = l}}

\* A test of the row alone, not of its completion.
RowPresent(pl) == pl # {}

\* main.py line 77: pl and pl.completed
LevelCompleted(pl) == pl # {} /\ \A r \in pl : r.completed # None

\* A loop without the existence check.
NeverAlready(rows, p, z) == FALSE

\* main.py lines 85-90: exists().where(player_id == self.id, prize_id == prize.id)
Already(rows, p, z) == \E r \in rows : r.player_id = p /\ r.prize_id = z

\* The orders in which a SELECT may answer a set of rows.
Orders(S) ==
    {s \in [1..Cardinality(S) -> S] : \A i, j \in 1..Cardinality(S) : s[i] = s[j] => i = j}

\* A grant that also rewrites the row found.
GrantOrTouch(s, p, z, t) ==
    IF ~s.ok THEN s
    ELSE LET fl == Flush(s.rows, s.new)
         IN IF ~fl.ok THEN [rows |-> s.rows, new |-> <<>>, ok |-> FALSE]
            ELSE [rows |-> {r \in fl.rows : ~(r.player_id = p /\ r.prize_id = z)},
                  new |-> <<[player_id |-> p, prize_id |-> z, received_at |-> t]>>,
                  ok |-> TRUE]

\* main.py lines 84-96, one iteration: the existence query autoflushes the
\* object added by the iteration before, then the prize is added if absent.
GrantOne(s, p, z, t) ==
    IF ~s.ok THEN s
    ELSE LET fl == Flush(s.rows, s.new)
         IN IF ~fl.ok THEN [rows |-> s.rows, new |-> <<>>, ok |-> FALSE]
            ELSE IF Already(fl.rows, p, z) THEN [rows |-> fl.rows, new |-> <<>>, ok |-> TRUE]
            ELSE [rows |-> fl.rows,
                  new |-> <<[player_id |-> p, prize_id |-> z, received_at |-> t]>>,
                  ok |-> TRUE]

\* The readings of the clock made by n successive statements of one call that
\* starts at `from`: the clock may advance between any two of them.
ClockReadings(n, from) ==
    {ts \in [1..n -> from..MaxTime] : \A i, j \in 1..n : i <= j => ts[i] <= ts[j]}

\* A loop that returns after its first prize.
GrantFirst(s, p, todo, ts) ==
    IF todo = <<>> THEN s ELSE GrantOne(s, p, Head(todo), Head(ts))

RECURSIVE GrantLoop(_, _, _, _)
\* main.py lines 84-96: the loop over the prizes; ts[i] is what
\* datetime.utcnow() answers on line 95 in iteration i.
GrantLoop(s, p, todo, ts) ==
    IF todo = <<>> THEN s
    ELSE GrantLoop(GrantOne(s, p, Head(todo), Head(ts)), p, Tail(todo), Tail(ts))

\* Player.give_prizes_for_level. Line 76 reads self.id, which reloads an
\* expired Player, and session.get answers from the identity map only for a
\* PlayerLevel loaded since the last commit; the callers keep the PlayerLevel
\* objects they record (test_methods.py line 71, call_example.py lines 58-59),
\* so a loaded one stays in the map. Every other call autoflushes and SELECTs,
\* and so does the query of line 80 for a completed level. Line 95 reads the
\* clock anew for each prize it grants, and the clock is left at the last
\* reading.
GivePrizes(p, l) ==
    /\ p \in existing.players
    /\ calls < MaxGives
    /\ calls' = calls + 1
    /\ LET pl == PLFind(plRows, p, l)
           hit == p \notin expired /\ <<p, l>> \in plLoaded
           quiet == hit /\ ~LevelCompleted(pl)
           fl == IF quiet THEN NoFlush ELSE Autoflush
           loaded == plLoaded \cup {<<r.player_id, r.level_id>> : r \in pl}
       IN IF inactive
          THEN /\ SessionUntouched
               /\ UNCHANGED now
               /\ last' = Called("give_prizes", p, l, FALSE)
          ELSE IF ~fl.ok
          THEN /\ Rollback
               /\ UNCHANGED now
               /\ last' = Called("give_prizes", p, l, FALSE)
          ELSE IF ~LevelCompleted(pl)
          THEN /\ pbRows' = fl.pb
               /\ ppRows' = fl.pp
               /\ pbNew' = IF quiet THEN pbNew ELSE <<>>
               /\ ppNew' = IF quiet THEN ppNew ELSE <<>>
               /\ pbDirty' = IF quiet THEN pbDirty ELSE {}
               /\ plLoaded' = loaded
               /\ expired' = expired \ {p}
               /\ UNCHANGED <<now, inactive, playersDurable, pbDurable, ppDurable, playerVars>>
               /\ last' = Called("give_prizes", p, l, TRUE)
          ELSE \E prizes \in Orders(LevelPrizes(l)) :
               \E ts \in ClockReadings(Len(prizes), now) :
                   LET g == GrantLoop([rows |-> fl.pp, new |-> <<>>, ok |-> TRUE],
                                      p, prizes, ts)
                       read == {r.received_at : r \in (g.rows \cup Range(g.new)) \ fl.pp}
                   IN IF g.ok
                      THEN /\ now' = CHOOSE t \in read \cup {now} :
                                         \A u \in read \cup {now} : u <= t
                           /\ pbRows' = fl.pb
                           /\ pbNew' = <<>>
                           /\ ppRows' = g.rows
                           /\ ppNew' = g.new
                           /\ pbDirty' = {}
                           /\ plLoaded' = loaded
                           /\ expired' = expired \ {p}
                           /\ UNCHANGED <<inactive, playersDurable, pbDurable, ppDurable,
                                          playerVars>>
                           /\ last' = Called("give_prizes", p, l, TRUE)
                      ELSE /\ Rollback
                           /\ UNCHANGED now
                           /\ last' = Called("give_prizes", p, l, FALSE)
    /\ UNCHANGED <<storeVars, loginLog, boostLog, catalogVars, csv, concVars>>

\* ------------------------------------------------------------- deletions
\* session.delete(record); session.commit(), in a session that holds nothing
\* uncommitted. The unit of work deletes the rows reached through the
\* relationships of the record that cascade; the rows of a table no such
\* relationship reaches are left to the ON DELETE CASCADE of their foreign
\* key, which the store follows only when it enforces foreign keys. The commit
\* expires the session's objects.

\* The number of records deleted so far.
Deleted ==
    Cardinality(Players \ (existing.players \cup unsaved))
        + Cardinality(Boosts \ existing.boosts)
        + Cardinality(Levels \ existing.levels)
        + Cardinality(Prizes \ existing.prizes)

\* The commit of a clean session that ends a deletion.
DeleteCommitted(players) ==
    /\ plLoaded' = {}
    /\ expired' = players
    /\ playersDurable' = PlayersAsHeld(players)
    /\ UNCHANGED <<pbDirty, inactive>>

\* ondelete="CASCADE" of a ForeignKey column: the rows kept by the store when
\* the row of id `gone` leaves the parent table.
OnDeleteCascade(rows, col, gone) ==
    IF ForeignKeysEnforced THEN {r \in rows : r[col] # gone} ELSE rows

\* A relationship with cascade="all, delete-orphan": the children are deleted
\* with the parent.
CascadeAll(rows, col, gone) == {r \in rows : r[col] # gone}

\* main.py lines 42-44: Player.boosts, Player.levels, Player.prizes cascade.
DeletePlayer(p) ==
    /\ p \in existing.players
    /\ SessionClean
    /\ Deleted < MaxDeletes
    /\ existing' = [existing EXCEPT !.players = @ \ {p}]
    /\ pbRows' = CascadeAll(pbRows, "player_id", p)
    /\ pbDurable' = CascadeAll(pbDurable, "player_id", p)
    /\ plRows' = CascadeAll(plRows, "player_id", p)
    /\ ppRows' = CascadeAll(ppRows, "player_id", p)
    /\ ppDurable' = CascadeAll(ppDurable, "player_id", p)
    /\ DeleteCommitted(existing.players \ {p})
    /\ last' = Called("delete", "", "", TRUE)
    /\ UNCHANGED <<now, unsaved, calls, loginVars, pbNew, boostLog, lpSeq, ppNew, csv, concVars>>

\* main.py line 105: Boost.player_boosts cascades.
DeleteBoost(b) ==
    /\ b \in existing.boosts
    /\ SessionClean
    /\ Deleted < MaxDeletes
    /\ existing' = [existing EXCEPT !.boosts = @ \ {b}]
    /\ pbRows' = CascadeAll(pbRows, "boost_id", b)
    /\ pbDurable' = CascadeAll(pbDurable, "boost_id", b)
    /\ DeleteCommitted(existing.players)
    /\ last' = Called("delete", "", "", TRUE)
    /\ UNCHANGED <<now, unsaved, calls, loginVars, pbNew, boostLog, catalogVars, prizeVars,
                   csv, concVars>>

\* main.py lines 136-137: Level.player_levels and Level.prizes cascade.
DeleteLevel(l) ==
    /\ l \in existing.levels
    /\ SessionClean
    /\ Deleted < MaxDeletes
    /\ existing' = [existing EXCEPT !.levels = @ \ {l}]
    /\ plRows' = CascadeAll(plRows, "level_id", l)
    /\ lpSeq' = SelectSeq(lpSeq, LAMBDA r : r.level_id # l)
    /\ DeleteCommitted(existing.players)
    /\ last' = Called("delete", "", "", TRUE)
    /\ UNCHANGED <<now, unsaved, calls, loginVars, boostVars, prizeVars, csv, concVars>>

\* main.py line 145: Prize.level_prizes cascades. No relationship of Prize
\* reaches player_prizes (PlayerPrize.prize on line 187 has no counterpart on
\* Prize), whose rows are left to the foreign key of line 183.
DeletePrize(z) ==
    /\ z \in existing.prizes
    /\ SessionClean
    /\ Deleted < MaxDeletes
    /\ existing' = [existing EXCEPT !.prizes = @ \ {z}]
    /\ lpSeq' = SelectSeq(lpSeq, LAMBDA r : r.prize_id # z)
    /\ ppRows' = OnDeleteCascade(ppRows, "prize_id", z)
    /\ ppDurable' = OnDeleteCascade(ppDurable, "prize_id", z)
    /\ DeleteCommitted(existing.players)
    /\ last' = Called("delete", "", "", TRUE)
    /\ UNCHANGED <<now, unsaved, calls, loginVars, boostVars, plRows, ppNew, csv, concVars>>

\* ------------------------------------------------------------- the export
LevelTitle(l) == IF l = "l1" THEN "Level 1" ELSE "Level 2"

PrizeTitle(z) == IF z = "z1" THEN "Prize 1" ELSE "Prize 2"

\* csv.writer renders bool(pl.completed) as str(True) or str(False).
BoolToken(b) == IF b THEN "True" ELSE "False"

\* main.py line 204: the rows the joined query answers for one PlayerLevel,
\* one per level_prizes row of its level, or one when the level has none.
JoinCount(pl) ==
    LET n == Cardinality({i \in 1..Len(lpSeq) : lpSeq[i].level_id = pl.level_id})
    IN IF n = 0 THEN 1 ELSE n

\* main.py lines 206-210: the line written for one answered row. `first` is
\* pl.level.prizes[0] per level, as the relationship was loaded.
CsvRow(pl, first) ==
    [player_id |-> pl.player_id,
     level_title |-> LevelTitle(pl.level_id),
     completed |-> BoolToken(pl.completed # None),
     prize_title |-> IF LevelPrizes(pl.level_id) # {}
                     THEN PrizeTitle(first[pl.level_id]) ELSE ""]

RECURSIVE CsvRows(_, _)
\* main.py lines 205-210: yield_per iterates the answered rows without
\* merging those of one entity, and each is written.
CsvRows(pls, first) ==
    IF pls = {} THEN EmptyBag
    ELSE LET pl == CHOOSE x \in pls : TRUE
         IN [r \in {CsvRow(pl, first)} |-> JoinCount(pl)] (+) CsvRows(pls \ {pl}, first)

\* export_player_levels_to_csv. The file is opened and its header written
\* before the query of line 204 runs; the query autoflushes the session's
\* pending objects, and what the flush raises leaves the file with its header
\* alone. The rows answered refresh the PlayerLevel objects the callers keep.
\* Level.prizes has no order_by: the store answers the rows of a level in an
\* order of its own, so any of the level's prizes may be prizes[0].
Export ==
    /\ calls < MaxExports
    /\ calls' = calls + 1
    /\ IF inactive
       THEN /\ SessionUntouched
            /\ csv' = EmptyBag
            /\ last' = Called("export", "", "", FALSE)
       ELSE IF ~Autoflush.ok
       THEN /\ Rollback
            /\ csv' = EmptyBag
            /\ last' = Called("export", "", "", FALSE)
       ELSE /\ AfterFlush(Autoflush)
            /\ plLoaded' = {<<r.player_id, r.level_id>> : r \in plRows}
            /\ UNCHANGED <<expired, inactive, playersDurable, pbDurable, ppDurable, playerVars>>
            /\ \E first \in [Levels -> Prizes] :
                   /\ \A l \in Levels :
                          IF LevelPrizes(l) # {} THEN first[l] \in LevelPrizes(l)
                          ELSE first[l] = "z1"
                   /\ csv' = CsvRows(plRows, first)
            /\ last' = Called("export", "", "", TRUE)
    /\ UNCHANGED <<now, storeVars, loginLog, boostLog, catalogVars, concVars>>

\* ------------------------------------------------ callers in parallel
\* Each caller runs one operation at a time in a session and transaction of
\* its own: its queries read the committed tables, its writes reach them when
\* it commits.

\* The column after the UPDATE of a flush: the unit of work writes an
\* attribute only when the value assigned differs from the value loaded.
NetChange(loaded, assigned, stored) == IF assigned = loaded THEN stored ELSE assigned

\* add_boost, main.py line 61: session.get reads the row of (p, b).
ConcGet(c, p, b, amount) ==
    /\ cpc[c] = "idle"
    /\ calls < MaxBoostCalls
    /\ calls' = calls + 1
    /\ cpc' = [cpc EXCEPT ![c] = "got"]
    /\ cargs' = [cargs EXCEPT ![c] = [player_id |-> p, id |-> b, amount |-> amount]]
    /\ cseen' = [cseen EXCEPT ![c] =
           IF PBFind(pbDurable, p, b) = {} THEN None
           ELSE Some((CHOOSE r \in PBFind(pbDurable, p, b) : TRUE).amount)]
    /\ UNCHANGED <<now, storeVars, sessionVars, clog, last, loginVars, boostVars, catalogVars, prizeVars, csv,
                   cnew, cflushed, ctodo, cfailed, cdone, cexpect>>

\* add_boost, main.py lines 62-70, and the caller's commit: the object read
\* is written back with its amount raised (UPDATE ... SET amount = value)
\* unless the amount added left it as loaded, or a new row is inserted; the
\* INSERT of a key that is there raises.
ConcWrite(c) ==
    /\ cpc[c] = "got"
    /\ LET p == cargs[c].player_id
           b == cargs[c].id
           amount == cargs[c].amount
       IN /\ IF cseen[c] = None
             THEN IF PBFind(pbDurable, p, b) # {}
                  THEN /\ cfailed' = cfailed \cup {c}
                       /\ UNCHANGED pbDurable
                  ELSE /\ pbDurable' = pbDurable \cup
                              {[player_id |-> p, boost_id |-> b,
                                amount |-> amount, created_at |-> now]}
                       /\ UNCHANGED cfailed
             ELSE /\ pbDurable' =
                         {IF PK(r) = <<p, b>>
                          THEN [r EXCEPT !.amount =
                                   NetChange(Val(cseen[c]),
                                             Accumulate(Val(cseen[c]), amount), @)]
                          ELSE r : r \in pbDurable}
                  /\ UNCHANGED cfailed
          /\ cexpect' = [cexpect EXCEPT ![<<p, b>>] =
                 IF @ = None THEN Some(amount) ELSE Some(Val(@) + amount)]
    /\ cpc' = [cpc EXCEPT ![c] = "idle"]
    /\ cseen' = [cseen EXCEPT ![c] = None]
    /\ UNCHANGED <<now, storeVars, sessionVars, clog, calls, last, loginVars, pbNew, pbRows, boostLog, catalogVars,
                   prizeVars, csv, cargs, cnew, cflushed, ctodo, cdone>>

\* give_prizes_for_level, main.py lines 76-82: the PlayerLevel row is read;
\* a completed level's prizes are selected.
ConcGiveStart(c, p, l) ==
    /\ cpc[c] = "idle"
    /\ calls < MaxGives
    /\ calls' = calls + 1
    /\ cargs' = [cargs EXCEPT ![c] = [player_id |-> p, id |-> l, amount |-> 0]]
    /\ IF LevelCompleted(PLFind(plRows, p, l))
       THEN /\ \E prizes \in Orders(LevelPrizes(l)) : ctodo' = [ctodo EXCEPT ![c] = prizes]
            /\ cpc' = [cpc EXCEPT ![c] = "loop"]
            /\ UNCHANGED cdone
       ELSE /\ cdone' = cdone \cup {[player_id |-> p, level_id |-> l]}
            /\ UNCHANGED <<cpc, ctodo>>
    /\ UNCHANGED <<now, storeVars, sessionVars, clog, last, loginVars, boostVars, catalogVars, prizeVars, csv,
                   cseen, cnew, cflushed, cfailed, cexpect>>

\* Another caller's transaction holds rows it has inserted and not committed.
\* The store is SQLite (test_methods.py line 15, call_example.py line 11),
\* which admits one writing transaction at a time.
WriteLocked(c) == \E d \in Callers \ {c} : cflushed[d] # {}

\* The flush of the caller's pending PlayerPrize objects into its
\* transaction, over the committed rows and those it has inserted itself.
ConcFlush(c) == Flush(ppDurable \cup cflushed[c], cnew[c])

\* A flush of caller c that has an object to insert raises: IntegrityError
\* when the key is in the table, OperationalError (database is locked) when
\* the wait for another caller's writing transaction times out.
ConcFlushRaises(c) == cnew[c] # <<>> /\ (WriteLocked(c) \/ ~ConcFlush(c).ok)

\* A flush of caller c goes through: there is nothing to insert, or no other
\* transaction is writing (a caller that finds one waits for it to end) and
\* no key is in the table.
ConcFlushPasses(c) == ~(cnew[c] # <<>> /\ WriteLocked(c)) /\ ConcFlush(c).ok

\* The error of a flush leaves give_prizes_for_level: the caller's
\* transaction is rolled back and its pending objects are expunged.
ConcGiveRaised(c) ==
    /\ cfailed' = cfailed \cup {c}
    /\ cnew' = [cnew EXCEPT ![c] = <<>>]
    /\ cflushed' = [cflushed EXCEPT ![c] = {}]
    /\ ctodo' = [ctodo EXCEPT ![c] = <<>>]
    /\ cpc' = [cpc EXCEPT ![c] = "idle"]
    /\ cdone' = cdone \cup {[player_id |-> cargs[c].player_id, level_id |-> cargs[c].id]}

\* give_prizes_for_level, main.py lines 84-96, one iteration: the existence
\* query autoflushes the object added by the iteration before (an INSERT in
\* the caller's transaction), sees the committed rows and the caller's own,
\* then the prize is added if absent.
ConcGiveCheck(c) ==
    /\ cpc[c] = "loop"
    /\ ctodo[c] # <<>>
    /\ \/ /\ ConcFlushRaises(c)
          /\ ConcGiveRaised(c)
       \/ /\ ConcFlushPasses(c)
          /\ LET p == cargs[c].player_id
                 z == Head(ctodo[c])
                 fl == ConcFlush(c)
             IN /\ cflushed' = [cflushed EXCEPT ![c] = fl.rows \ ppDurable]
                /\ cnew' = [cnew EXCEPT ![c] =
                       IF Already(fl.rows, p, z) THEN <<>>
                       ELSE <<[player_id |-> p, prize_id |-> z, received_at |-> now]>>]
          /\ ctodo' = [ctodo EXCEPT ![c] = Tail(@)]
          /\ UNCHANGED <<cpc, cfailed, cdone>>
    /\ UNCHANGED <<now, storeVars, sessionVars, clog, calls, last, loginVars, boostVars, catalogVars, prizeVars, csv,
                   cargs, cseen, cexpect>>

\* The caller's commit after the loop: the flush inserts the PlayerPrize
\* still pending, and the rows of the transaction become durable; a key
\* committed by another caller meanwhile makes the INSERT raise and the
\* transaction roll back.
ConcGiveCommit(c) ==
    /\ cpc[c] = "loop"
    /\ ctodo[c] = <<>>
    /\ \/ /\ ConcFlushRaises(c)
          /\ ConcGiveRaised(c)
          /\ UNCHANGED ppDurable
       \/ /\ ConcFlushPasses(c)
          /\ ppDurable' = ConcFlush(c).rows
          /\ cnew' = [cnew EXCEPT ![c] = <<>>]
          /\ cflushed' = [cflushed EXCEPT ![c] = {}]
          /\ cpc' = [cpc EXCEPT ![c] = "idle"]
          /\ cdone' = cdone \cup
                 {[player_id |-> cargs[c].player_id, level_id |-> cargs[c].id]}
          /\ UNCHANGED <<cfailed, ctodo>>
    /\ UNCHANGED <<now, storeVars, sessionVars, clog, calls, last, loginVars, boostVars, catalogVars, ppNew, ppRows, csv,
                   cargs, cseen, cexpect>>

\* main.py line 53 on the caller's object: self.points += 10 computes the
\* new value from the value the session loaded, and the flush writes that
\* value (UPDATE players SET points = value).
WrittenPoints(seen, stored, credit) == seen + credit

\* The Player row as a caller's session loads it; `base` counts the logins
\* committed before.
LoadedPlayer(p) ==
    Some([first_login |-> first_login[p], last_login |-> last_login[p],
          points |-> points[p], base |-> Len(clog[p])])

\* The caller's session loads the Player before login is called, as the read
\* of self.player.points does on test_methods.py line 44.
ConcLoginLoad(c, p) ==
    /\ cpc[c] = "idle"
    /\ calls < MaxConcLogins
    /\ calls' = calls + 1
    /\ cpc' = [cpc EXCEPT ![c] = "loaded"]
    /\ cargs' = [cargs EXCEPT ![c] = [player_id |-> p, id |-> "", amount |-> 0]]
    /\ cseen' = [cseen EXCEPT ![c] = Some([row |-> LoadedPlayer(p), at |-> None])]
    /\ UNCHANGED <<now, storeVars, sessionVars, last, loginVars, boostVars, catalogVars, prizeVars, csv,
                   cnew, cflushed, ctodo, cfailed, cdone, cexpect, clog>>

\* Player.login on a Player loaded before, main.py line 48: the clock is
\* read, and lines 49-55 compute from that reading and the copy; nothing
\* reaches the store before the caller commits.
ConcLoginCall(c) ==
    /\ cpc[c] = "loaded"
    /\ cpc' = [cpc EXCEPT ![c] = "called"]
    /\ cseen' = [cseen EXCEPT ![c] = Some([Val(@) EXCEPT !.at = Some(now)])]
    /\ UNCHANGED <<now, storeVars, sessionVars, calls, last, loginVars, boostVars, catalogVars,
                   prizeVars, csv, cargs, cnew, cflushed, ctodo, cfailed, cdone, cexpect, clog>>

\* Player.login on a Player expired by the caller's last commit (as after
\* call_example.py line 41), main.py line 48: the clock is read before any
\* attribute is.
ConcLoginEnter(c, p) ==
    /\ cpc[c] = "idle"
    /\ calls < MaxConcLogins
    /\ calls' = calls + 1
    /\ cpc' = [cpc EXCEPT ![c] = "entered"]
    /\ cargs' = [cargs EXCEPT ![c] = [player_id |-> p, id |-> "", amount |-> 0]]
    /\ cseen' = [cseen EXCEPT ![c] = Some([row |-> None, at |-> Some(now)])]
    /\ UNCHANGED <<now, storeVars, sessionVars, last, loginVars, boostVars, catalogVars, prizeVars, csv,
                   cnew, cflushed, ctodo, cfailed, cdone, cexpect, clog>>

\* main.py line 49 on the expired Player: the read of self.first_login loads
\* the row as it is committed by then, and lines 49-55 compute from it and
\* from the reading of line 48.
ConcLoginReload(c) ==
    /\ cpc[c] = "entered"
    /\ cpc' = [cpc EXCEPT ![c] = "called"]
    /\ cseen' = [cseen EXCEPT ![c] =
           Some([Val(@) EXCEPT !.row = LoadedPlayer(cargs[c].player_id)])]
    /\ UNCHANGED <<now, storeVars, sessionVars, calls, last, loginVars, boostVars, catalogVars,
                   prizeVars, csv, cargs, cnew, cflushed, ctodo, cfailed, cdone, cexpect, clog>>

\* The caller's commit after login: the UPDATE sets the attributes the call
\* assigned, to the values it computed from the copy and from its own reading
\* of the clock: first_login when the copy had none, points when line 53
\* ran, and last_login always, a datetime of its own that no row holds yet.
ConcLoginCommit(c) ==
    /\ cpc[c] = "called"
    /\ LET p == cargs[c].player_id
           seen == Val(Val(cseen[c]).row)
           at == Val(Val(cseen[c]).at)
           due == BonusDue(seen.last_login, at)
           credit == IF due THEN DailyBonus ELSE 0
           written == IF due THEN WrittenPoints(seen.points, points[p], credit)
                      ELSE points[p]
       IN /\ first_login' = [first_login EXCEPT
                 ![p] = IF seen.first_login = None THEN FirstLogin(None, at) ELSE @]
          /\ points' = [points EXCEPT ![p] = written]
          /\ last_login' = [last_login EXCEPT ![p] = Some(at)]
          /\ clog' = [clog EXCEPT ![p] = Append(@,
                 [at |-> at, base |-> seen.base, credit |-> credit,
                  before |-> points[p], after |-> written])]
    /\ cpc' = [cpc EXCEPT ![c] = "idle"]
    /\ cseen' = [cseen EXCEPT ![c] = None]
    /\ UNCHANGED <<now, storeVars, sessionVars, calls, last, loginLog, boostVars, catalogVars, prizeVars,
                   csv, cargs, cnew, cflushed, ctodo, cfailed, cdone, cexpect>>

\* The levels, their prizes and the completions are recorded before any
\* caller starts.
ConcSetup ==
    /\ cdone = {}
    /\ \A c \in Callers : cpc[c] = "idle"
    /\ \/ \E l \in Levels, z \in Prizes : AddLevelPrize(l, z)
       \/ \E p \in Players, l \in Levels, done \in BOOLEAN : RecordLevel(p, l, done)

\* ---------------------------------------------------------- specifications
NextLogin == Tick \/ \E p \in Players : Login(p)

\* Logins under the advancing clock.
SpecLogin == Init /\ [][NextLogin]_vars

NextLoginNew ==
    \/ Tick
    \/ \E p \in Players : DeletePlayer(p)
    \/ \E p \in Players : NewPlayer(p)
    \/ \E p \in Players : Persist(p)
    \/ \E p \in Players : Login(p)

\* Logins of players stored at the start and of players constructed later,
\* before and after they are stored.
SpecLoginNew == Init /\ [][NextLoginNew]_vars

NextBoost ==
    \/ Commit
    \/ \E p \in Players, b \in Boosts, amount \in Amounts : AddBoost(p, b, amount)

\* add_boost calls and commits of one session.
SpecBoost == Init /\ [][NextBoost]_vars

NextBoostSigned ==
    \/ Commit
    \/ \E p \in Players, b \in Boosts, amount \in SignedAmounts : AddBoost(p, b, amount)

\* add_boost calls of any integer amount and commits of one session.
SpecBoostSigned == Init /\ [][NextBoostSigned]_vars

NextBoostCatalog ==
    \/ Commit
    \/ \E b \in Boosts : DeleteBoost(b)
    \/ \E p \in Players, b \in Boosts, amount \in Amounts : AddBoost(p, b, amount)

\* add_boost calls with boost ids whose Boost may have left the catalog.
SpecBoostCatalog == Init /\ [][NextBoostCatalog]_vars

NextStore ==
    \/ Commit
    \/ \E l \in Levels, z \in Prizes : AddLevelPrize(l, z)
    \/ \E p \in Players, l \in Levels, done \in BOOLEAN : RecordLevel(p, l, done)
    \/ \E p \in Players, l \in Levels : GivePrizes(p, l)
    \/ \E p \in Players, b \in existing.boosts : calls < MaxGives /\ AddBoost(p, b, 1)
    \/ \E p \in Players : DeletePlayer(p)
    \/ \E b \in Boosts : DeleteBoost(b)
    \/ \E l \in Levels : DeleteLevel(l)
    \/ \E z \in Prizes : DeletePrize(z)

\* The association rows created by the operations, and deletions of the
\* records they refer to.
SpecStore == Init /\ [][NextStore]_vars

NextPrize ==
    \/ Tick
    \/ Commit
    \/ \E l \in Levels, z \in Prizes : AddLevelPrize(l, z)
    \/ \E p \in Players, l \in Levels, done \in BOOLEAN : RecordLevel(p, l, done)
    \/ \E p \in Players, l \in Levels : GivePrizes(p, l)

\* Level completions and prize grants of one session.
SpecPrize == Init /\ [][NextPrize]_vars

NextExport ==
    \/ Tick
    \/ \E l \in Levels, z \in Prizes : AddLevelPrize(l, z)
    \/ \E p \in Players, l \in Levels, done \in BOOLEAN : RecordLevel(p, l, done)
    \/ Export

\* Exports of stores of recorded levels and level prizes.
SpecExport == Init /\ [][NextExport]_vars

NextConcBoost ==
    \/ \E c \in Callers, p \in Players, b \in Boosts, amount \in Amounts :
           ConcGet(c, p, b, amount)
    \/ \E c \in Callers : ConcWrite(c)

\* add_boost calls of two callers, their steps interleaved.
SpecConcBoost == Init /\ [][NextConcBoost]_vars

NextConcPrize ==
    \/ ConcSetup
    \/ \E c \in Callers, p \in Players, l \in Levels : ConcGiveStart(c, p, l)
    \/ \E c \in Callers : ConcGiveCheck(c)
    \/ \E c \in Callers : ConcGiveCommit(c)

\* give_prizes_for_level calls of two callers, their steps interleaved.
SpecConcPrize == Init /\ [][NextConcPrize]_vars

NextConcLogin ==
    \/ Tick
    \/ \E c \in Callers, p \in Players : ConcLoginLoad(c, p)
    \/ \E c \in Callers : ConcLoginCall(c)
    \/ \E c \in Callers, p \in Players : ConcLoginEnter(c, p)
    \/ \E c \in Callers : ConcLoginReload(c)
    \/ \E c \in Callers : ConcLoginCommit(c)

\* login calls of two callers, each on its own copy of the Player, their
\* steps interleaved.
SpecConcLogin == Init /\ [][NextConcLogin]_vars

\* Every operation of the one-session program.
Next == NextLoginNew \/ NextBoostSigned \/ NextStore \/ NextPrize \/ Export

Spec == Init /\ [][Next]_vars

\* ------------------------------------------------------------------ claims
RECURSIVE CreditOn(_, _)
\* The points credited by the logins of `log` made on day d.
CreditOn(log, d) ==
    IF log = <<>> THEN 0
    ELSE (IF Date(Head(log).at) = d THEN Head(log).credit ELSE 0) + CreditOn(Tail(log), d)

LoginsOn(log, d) == Cardinality({i \in 1..Len(log) : Date(log[i].at) = d})

\* C5: the logins a player makes within one UTC calendar day, two or more of
\* them, credit exactly 10 points in total; the first login of a player adds 10
\* and sets first_login and last_login.
LoginOncePerDay ==
    \A p \in Players :
        /\ \A d \in 0..Date(MaxTime) :
               LoginsOn(loginLog[p], d) >= 2 => CreditOn(loginLog[p], d) = 10
        /\ loginLog[p] # <<>> =>
               /\ loginLog[p][1].credit = 10
               /\ first_login[p] = Some(loginLog[p][1].at)
               /\ last_login[p] # None
               /\ points[p] >= 10

\* C5 witness: a player logged in on one day and then twice on a later day.
LoginTwiceSameDay ==
    \E p \in Players :
        /\ Len(loginLog[p]) >= 3
        /\ Date(loginLog[p][1].at) < Date(loginLog[p][2].at)
        /\ Date(loginLog[p][2].at) = Date(loginLog[p][3].at)
        /\ points[p] = 20

\* The PlayerBoost objects of (p, b) the session holds, pending ones included.
PBCount(p, b) ==
    Cardinality(PBFind(pbRows, p, b))
        + Cardinality({i \in 1..Len(pbNew) : PK(pbNew[i]) = <<p, b>>})

PBAmounts(p, b) == {r.amount : r \in PBFind(pbRows \cup Range(pbNew), p, b)}

\* C1: after add_boost(p, b, a1) and add_boost(p, b, a2) from no row there is
\* exactly one PlayerBoost row for (p, b) and its amount is a1 + a2, with or
\* without a commit between the calls.
AddBoostTwiceSums ==
    \A p \in Players, b \in Boosts :
        boostLog[<<p, b>>].n = 2 =>
            PBCount(p, b) = 1 /\ PBAmounts(p, b) = {boostLog[<<p, b>>].sum}

\* C1 witness: one pair got its two calls, of positive amounts, with a commit
\* between them, another pair got both calls with no commit.
AddBoostTwiceDone ==
    \E p \in Players, b \in Boosts, q \in Players, c \in Boosts :
        /\ <<p, b>> # <<q, c>>
        /\ boostLog[<<p, b>>].n = 2
        /\ boostLog[<<q, c>>].n = 2
        /\ \E r \in PBFind(pbDurable, p, b) : 0 < r.amount /\ r.amount < boostLog[<<p, b>>].sum
        /\ PBFind(pbDurable, q, c) = {}
        /\ boostLog[<<q, c>>].sum = 2 * MaxAmount

\* The PlayerPrize objects the session holds, pending ones included.
PPAll == ppRows \cup Range(ppNew)

PPCount(p, z) ==
    Cardinality({r \in ppRows : PK(r) = <<p, z>>})
        + Cardinality({i \in 1..Len(ppNew) : PK(ppNew[i]) = <<p, z>>})

PPCountOf(p) ==
    Cardinality({r \in ppRows : r.player_id = p})
        + Cardinality({i \in 1..Len(ppNew) : ppNew[i].player_id = p})

PrizeIds(p) == {r.prize_id : r \in {x \in PPAll : x.player_id = p}}

\* The prizes associated with level l by a level_prizes row.
Associated(l) == {z \in Prizes : \E i \in 1..Len(lpSeq) : lpSeq[i] = [level_id |-> l, prize_id |-> z]}

\* PlayerLevel(p, l) exists and has a completion timestamp.
IsCompleted(p, l) ==
    \E r \in plRows : r.player_id = p /\ r.level_id = l /\ r.completed # None

\* This step is a call of give_prizes_for_level(p, l).
GiveStep(p, l) ==
    /\ calls' = calls + 1
    /\ last'.op = "give_prizes" /\ last'.player_id = p /\ last'.arg = l

\* C2: a call of give_prizes_for_level(p, l) on a completed level returns
\* normally and turns the player's prize set S into S united with the prizes
\* of l; from no prizes that is exactly N rows, one per prize of l.
GiveGrantsLevelPrizes ==
    [][\A p \in Players, l \in Levels :
          GiveStep(p, l) /\ IsCompleted(p, l) =>
              /\ last'.ok
              /\ PrizeIds(p)' = PrizeIds(p) \cup Associated(l)
              /\ PrizeIds(p) = {} => PPCountOf(p)' = Cardinality(Associated(l))]_vars

\* C2 witness: a player without prizes completed a level with two prizes and
\* the call left two rows.
GaveTwoPrizes ==
    /\ last.op = "give_prizes" /\ last.ok /\ ~last.again
    /\ IsCompleted(last.player_id, last.arg)
    /\ Cardinality(Associated(last.arg)) = 2
    /\ PPCountOf(last.player_id) = 2
    /\ PrizeIds(last.player_id) = Associated(last.arg)

\* C3: a call of give_prizes_for_level keeps every PlayerPrize row as it is,
\* received_at included; repeated with no change in between it adds nothing;
\* after a partial grant it adds exactly the rows of the missing prizes.
GiveIsIdempotent ==
    [][\A p \in Players, l \in Levels :
          GiveStep(p, l) =>
              /\ PPAll \subseteq PPAll'
              /\ \A q \in Players, z \in Prizes : PPCount(q, z)' >= PPCount(q, z)
              /\ (last.op = "give_prizes" /\ last.player_id = p /\ last.arg = l) =>
                     /\ PPAll' = PPAll
                     /\ \A q \in Players, z \in Prizes : PPCount(q, z)' = PPCount(q, z)
              /\ IsCompleted(p, l) =>
                     /\ {r.prize_id : r \in PPAll' \ PPAll} = Associated(l) \ PrizeIds(p)
                     /\ Cardinality(PPAll' \ PPAll)
                            = Cardinality(Associated(l) \ PrizeIds(p))
                     /\ \A r \in PPAll' \ PPAll :
                            /\ r.player_id = p
                            /\ now <= r.received_at /\ r.received_at <= now']_vars

\* C3 witness: the call was repeated at a later time on a completed level
\* whose prize the player holds since the first call.
GaveAgainLater ==
    /\ last.op = "give_prizes" /\ last.ok /\ last.again
    /\ IsCompleted(last.player_id, last.arg)
    /\ \E r \in PPAll :
           /\ r.player_id = last.player_id
           /\ r.prize_id \in Associated(last.arg)
           /\ r.received_at < now

\* C4: a call of give_prizes_for_level(p, l) while PlayerLevel(p, l) is absent
\* or not completed returns normally and creates no PlayerPrize row.
GiveNothingIfIncomplete ==
    [][\A p \in Players, l \in Levels :
          GiveStep(p, l) /\ ~IsCompleted(p, l) =>
              /\ last'.ok
              /\ PPAll' = PPAll
              /\ \A q \in Players, z \in Prizes : PPCount(q, z)' = PPCount(q, z)]_vars

\* C4 witness: the call was made twice on a recorded, uncompleted level that
\* has a prize, and the player holds none.
GaveNothingTwice ==
    /\ last.op = "give_prizes" /\ last.ok /\ last.again
    /\ \E r \in plRows :
           r.player_id = last.player_id /\ r.level_id = last.arg /\ r.completed = None
    /\ Associated(last.arg) # {}
    /\ PrizeIds(last.player_id) = {}

\* C6: there is at most one PlayerPrize row per (player, prize), in the
\* session and in the committed table.
OnePrizeRowPerPair ==
    \A p \in Players, z \in Prizes :
        /\ PPCount(p, z) <= 1
        /\ Cardinality({r \in ppDurable : PK(r) = <<p, z>>}) <= 1

\* C6 witness: a prize of two levels; the player got it for the first level
\* and, after completing the second one later, was given that level's prizes.
SharedPrizeGivenOnce ==
    \E z \in Prizes, l \in Levels, r \in PPAll, m \in plRows :
        /\ l # last.arg
        /\ z \in Associated(l) \cap Associated(last.arg)
        /\ last.op = "give_prizes" /\ last.ok
        /\ IsCompleted(last.player_id, l)
        /\ m.player_id = last.player_id /\ m.level_id = last.arg /\ m.completed # None
        /\ r.player_id = last.player_id /\ r.prize_id = z
        /\ r.received_at < Val(m.completed)

\* The prize of level l whose level_prizes row was inserted first.
FirstInserted(l) ==
    LET i == CHOOSE j \in 1..Len(lpSeq) :
                 /\ lpSeq[j].level_id = l
                 /\ \A k \in 1..(j - 1) : lpSeq[k].level_id # l
    IN lpSeq[i].prize_id

\* C9: an export writes exactly one data row per PlayerLevel record.
ExportOneRowPerPlayerLevel ==
    last.op = "export" => BagCardinality(csv) = Cardinality(plRows)

\* C10: in every exported row prize_title is empty iff the level has no prize,
\* it is the title of the level's first inserted prize when it has some, and
\* completed tells whether the PlayerLevel has a completion timestamp.
ExportRowContents ==
    last.op = "export" =>
        \A row \in BagToSet(csv) :
            \E pl \in plRows :
                /\ row.player_id = pl.player_id
                /\ row.level_title = LevelTitle(pl.level_id)
                /\ row.prize_title = "" <=> Associated(pl.level_id) = {}
                /\ Associated(pl.level_id) # {} =>
                       row.prize_title = PrizeTitle(FirstInserted(pl.level_id))
                /\ row.completed = "True" <=> pl.completed # None

AllIdle == \A c \in Callers : cpc[c] = "idle"

\* C7: when the add_boost calls of the callers have ended, whatever the
\* interleaving, none has raised and each (player, boost) called for has
\* exactly one row holding the sum of all amounts added.
ConcAddBoostSafe ==
    AllIdle =>
        /\ cfailed = {}
        /\ \A p \in Players, b \in Boosts :
               IF cexpect[<<p, b>>] = None THEN PBFind(pbDurable, p, b) = {}
               ELSE /\ Cardinality(PBFind(pbDurable, p, b)) = 1
                    /\ \A r \in PBFind(pbDurable, p, b) : r.amount = Val(cexpect[<<p, b>>])

\* C8: when the give_prizes_for_level calls of the callers have ended,
\* whatever the interleaving, none has raised and the player of each call on
\* a completed level has exactly one row per prize of the level.
ConcGiveSafe ==
    AllIdle =>
        /\ cfailed = {}
        /\ \A d \in cdone :
               IsCompleted(d.player_id, d.level_id) =>
                   \A z \in Associated(d.level_id) :
                       Cardinality({r \in ppDurable : PK(r) = <<d.player_id, z>>}) = 1

\* This step is a call add_boost(p, b, amount) with a negative amount.
NegativeBoostStep(p, b) ==
    /\ boostLog'[<<p, b>>].n = boostLog[<<p, b>>].n + 1
    /\ boostLog'[<<p, b>>].sum < boostLog[<<p, b>>].sum

\* The PlayerBoost objects of (p, b) the session holds, pending ones included.
PBHeld(p, b) == PBFind(pbRows \cup Range(pbNew), p, b)

\* C11: a call of add_boost with a negative amount raises and leaves the
\* PlayerBoost row of (p, b) as it was, whatever the state before, a row
\* holding at least |amount| included.
NegativeBoostRejected ==
    [][\A p \in Players, b \in Boosts :
          NegativeBoostStep(p, b) =>
              /\ ~last'.ok
              /\ PBHeld(p, b)' = PBHeld(p, b)
              /\ PBFind(pbDurable, p, b)' = PBFind(pbDurable, p, b)]_vars

\* This step is a call add_boost(p, b, amount).
BoostStep(p, b) == boostLog'[<<p, b>>].n = boostLog[<<p, b>>].n + 1

\* C12: a call of add_boost with a boost id that has no row in boosts raises
\* and changes nothing: no PlayerBoost of (p, b) is held by the session or
\* stored afterwards, not after a later commit either.
UnknownBoostRejected ==
    /\ [][\A p \in Players, b \in Boosts \ existing.boosts :
             BoostStep(p, b) => ~last'.ok /\ PBHeld(p, b)' = {}]_vars
    /\ [](\A p \in Players, b \in Boosts \ existing.boosts : PBFind(pbDurable, p, b) = {})

\* The association rows, committed or held by the session.
PBRowsAll == pbDurable \cup pbRows \cup Range(pbNew)

PPRowsAll == ppDurable \cup ppRows \cup Range(ppNew)

\* C14: each association row's two foreign keys refer to existing records,
\* also after a Player, Boost, Level or Prize was deleted; the PlayerPrize
\* rows of a deleted Prize are gone with it.
NoOrphanRows ==
    /\ \A r \in PBRowsAll : r.player_id \in existing.players /\ r.boost_id \in existing.boosts
    /\ \A r \in plRows : r.player_id \in existing.players /\ r.level_id \in existing.levels
    /\ \A r \in Range(lpSeq) : r.level_id \in existing.levels /\ r.prize_id \in existing.prizes
    /\ \A r \in PPRowsAll : r.player_id \in existing.players /\ r.prize_id \in existing.prizes

\* C13: whatever add_boost calls were made, with amounts of any sign, every
\* committed PlayerBoost row has amount >= 0 and no (player, boost) pair has
\* more than one committed row.
CommittedBoostsValid ==
    /\ \A r \in pbDurable : r.amount >= 0
    /\ \A p \in Players, b \in Boosts : Cardinality(PBFind(pbDurable, p, b)) <= 1

\* C13 witness: a commit was refused after a call whose amount took a row
\* below zero, and the rows committed before it, one of them lowered by a
\* negative amount, are what the table holds.
NegativeCommitRefused ==
    /\ last.op = "commit" /\ ~last.ok
    /\ \E p \in Players, b \in Boosts : \E r \in PBFind(pbDurable, p, b) :
           /\ boostLog[<<p, b>>].n = 3
           /\ boostLog[<<p, b>>].sum < 0
           /\ r.amount = 1
    /\ pbRows = pbDurable

\* This step is a call of login, add_boost or give_prizes_for_level made on
\* behalf of player p.
PlayerCallStep(p) ==
    /\ calls' = calls + 1
    /\ last'.op \in {"login", "add_boost", "give_prizes"}
    /\ last'.player_id = p

\* The Player record of q and the association rows of q, those the session
\* holds and those committed.
RowsOf(q) ==
    [player |-> <<first_login[q], last_login[q], points[q]>>,
     boosts |-> {r \in pbRows \cup Range(pbNew) : r.player_id = q},
     boostsDurable |-> {r \in pbDurable : r.player_id = q},
     levels |-> {r \in plRows : r.player_id = q},
     prizes |-> {r \in ppRows \cup Range(ppNew) : r.player_id = q},
     prizesDurable |-> {r \in ppDurable : r.player_id = q}]

\* C15: a call made on behalf of player p changes neither the Player record
\* nor any PlayerBoost, PlayerLevel or PlayerPrize row of another player q,
\* nor the Boost, Level, Prize and LevelPrize catalog, however the calls for
\* p and q follow each other.
NoCrossPlayerInterference ==
    [][\A p \in Players :
          PlayerCallStep(p) =>
              /\ \A q \in Players \ {p} : RowsOf(q)' = RowsOf(q)
              /\ existing' = existing
              /\ lpSeq' = lpSeq]_vars

\* This step is a call of login on player p.
LoginStep(p) ==
    /\ calls' = calls + 1
    /\ last'.op = "login" /\ last'.player_id = p

\* C16: login never raises, on a stored Player as on one just constructed,
\* with first_login and last_login set or unset; it sets last_login to now
\* and changes nothing but first_login, last_login and points of its player.
LoginNeverRaises ==
    [][\A p \in Players :
          LoginStep(p) =>
              /\ last'.ok
              /\ last_login'[p] = Some(now)
              /\ \A q \in Players \ {p} :
                     <<first_login[q], last_login[q], points[q]>>'
                         = <<first_login[q], last_login[q], points[q]>>
              /\ UNCHANGED <<storeVars, boostVars, catalogVars, prizeVars>>]_vars

\* The UTC calendar day a tick of the clock falls on.
UtcDay(t) == t \div TicksPerDay

\* The days on which login was called for player p.
DaysLoggedIn(p) == {UtcDay(loginLog[p][i].at) : i \in 1..Len(loginLog[p])}

\* C17: under the non-decreasing clock, from points = 0 and last_login unset,
\* points is 10 times the number of distinct UTC days on which login was
\* called; each login credits 0 or 10, so points never decreases.
PointsCountLoginDays ==
    /\ [](\A p \in Players : points[p] = 10 * Cardinality(DaysLoggedIn(p)))
    /\ [][\A p \in Players : points'[p] - points[p] \in {0, 10}]_vars
    /\ [][\A p \in Players : LoginStep(p) => last'.ok]_vars

\* C17 witness: two logins on one day and a third on the next day left 20
\* points.
LoggedInOnTwoDays ==
    \E p \in Players :
        /\ Len(loginLog[p]) = 3
        /\ UtcDay(loginLog[p][1].at) = UtcDay(loginLog[p][2].at)
        /\ UtcDay(loginLog[p][2].at) < UtcDay(loginLog[p][3].at)
        /\ points[p] = 20

\* C18: first_login, once set, is never changed by a later login; every login
\* sets last_login to its own time, also when it credits nothing; so
\* first_login <= last_login in every state.
FirstLoginKept ==
    /\ [][\A p \in Players :
             first_login[p] # None => first_login'[p] = first_login[p]]_vars
    /\ [][\A p \in Players :
             LoginStep(p) => last_login'[p] = Some(now) /\ first_login'[p] # None]_vars
    /\ [](\A p \in Players :
             /\ first_login[p] # None <=> last_login[p] # None
             /\ first_login[p] # None => Val(first_login[p]) <= Val(last_login[p]))

\* C18 witness: a second login later on the day of the first credited nothing
\* and moved last_login, not first_login.
LastLoginRefreshed ==
    \E p \in Players :
        /\ last.op = "login" /\ last.player_id = p
        /\ points[p] = 10
        /\ first_login[p] # None /\ last_login[p] # None
        /\ Val(first_login[p]) < Val(last_login[p])
        /\ UtcDay(Val(first_login[p])) = UtcDay(Val(last_login[p]))

\* C19: while PlayerPrize rows come from give_prizes_for_level alone and no
\* completion is cleared, every PlayerPrize row (p, z), pending, flushed or
\* committed, has a level l with z associated to l and PlayerLevel(p, l)
\* completed.
EveryPrizeJustified ==
    \A r \in PPRowsAll :
        \E l \in Levels : r.prize_id \in Associated(l) /\ IsCompleted(r.player_id, l)

\* C19 witness: a player holds the prize of a completed level, and the call
\* for another level, recorded and not completed, gave nothing of that
\* level's prize.
GaveOnlyForCompleted ==
    \E p \in Players, l \in Levels, m \in Levels :
        /\ last.op = "give_prizes" /\ last.ok /\ last.player_id = p /\ last.arg = m
        /\ IsCompleted(p, l)
        /\ \E r \in plRows : r.player_id = p /\ r.level_id = m /\ r.completed = None
        /\ Associated(l) # {} /\ Associated(m) # {}
        /\ Associated(l) \cap Associated(m) = {}
        /\ {r.prize_id : r \in {x \in ppDurable : x.player_id = p}} = Associated(l)
        /\ PrizeIds(p) = Associated(l)

\* Logins i and i + 1 of log ran concurrently on one UTC day: both callers
\* loaded the record as it was before either wrote.
RacedPair(log, i) ==
    /\ i + 1 <= Len(log)
    /\ log[i].base = i - 1
    /\ log[i + 1].base = i - 1
    /\ UtcDay(log[i].at) = UtcDay(log[i + 1].at)

\* The UTC day of login i of player p's log had been credited when the two
\* callers loaded the record: a login of that day committed before them
\* raised the stored points.
DayCredited(p, i) ==
    \E j \in 1..(i - 1) :
        /\ UtcDay(clog[p][j].at) = UtcDay(clog[p][i].at)
        /\ clog[p][j].after > clog[p][j].before

\* The UTC day of login i of player p's log had not been credited: no login
\* of that day committed before the two callers ran line 53.
DayNotCredited(p, i) ==
    \A j \in 1..(i - 1) :
        UtcDay(clog[p][j].at) = UtcDay(clog[p][i].at) => clog[p][j].credit = 0

\* C20: two logins of one player that run concurrently on one UTC day, each
\* reading last_login and points before the other writes, credit together 10
\* points when the day was not yet credited and 0 when it was.
ConcLoginCreditsOnce ==
    \A p \in Players : \A i \in 1..Len(clog[p]) :
        RacedPair(clog[p], i) =>
            LET credited == clog[p][i + 1].after - clog[p][i].before
            IN /\ DayNotCredited(p, i) => credited = 10
               /\ DayCredited(p, i) => credited = 0

====
